---- MODULE Spec2Model ----
(***************************************************************************)
(* A model of the BEKK estimation engine (src/bekk): the parameter        *)
(* matrices and their stationarity constraint (param_generic.py), the     *)
(* covariance recursion and the likelihood evaluator (utils.py), and the  *)
(* estimation driver (bekk.py).                                           *)
(*                                                                         *)
(* Spec is the driver: an estimator is built on a series, estimate() is   *)
(* called, the optimizer calls the objective with trial vectors and       *)
(* returns.  SpecUnit calls the functions of param_generic.py and         *)
(* utils.py directly, one call per behaviour.                             *)
(*                                                                         *)
(* Numbers are exact rationals <<n, d>> in lowest terms with d > 0; the   *)
(* pair <<0, 0>> is the float NaN.  Rounding is not modelled.  A matrix   *)
(* is a sequence of rows; a vector is a sequence of numbers.  The value   *)
(* log(x) + y is kept as the pair of x and y.                             *)
(*                                                                         *)
(* bekk.py imports BEKKParams and a compiled recursion and evaluator that *)
(* are not among the sources; the decode of a trial vector is modelled    *)
(* for the restrictions "scalar" and "diagonal", and the recursion and    *)
(* evaluator called by the objective are those of utils.py.               *)
(***************************************************************************)
EXTENDS Integers, Sequences, FiniteSets, TLC

(* ------------------------------ evaluation --------------------------- *)

\* F applied to the values of its arguments, each evaluated once
Let1(F(_), X) == CHOOSE r \in {F(x) : x \in {X}} : TRUE

Let2(F(_, _), X, Y) == CHOOSE r \in {F(x, y) : x \in {X}, y \in {Y}} : TRUE

Let3(F(_, _, _), X, Y, Z) ==
    CHOOSE r \in {F(x, y, z) : x \in {X}, y \in {Y}, z \in {Z}} : TRUE

(* ------------------------------ numbers ------------------------------ *)

NaN == <<0, 0>>

IsNaN(x) == x[2] = 0

Abs(i) == IF i < 0 THEN -i ELSE i

RECURSIVE GCD(_, _)
GCD(A, B) == Let2(LAMBDA a, b : IF b = 0 THEN a ELSE GCD(b, a % b), A, B)

Norm(N, D) ==
    Let2(LAMBDA n, d :
            IF d = 0 THEN NaN
            ELSE Let1(LAMBDA g : IF d < 0 THEN <<(-n) \div g, (-d) \div g>>
                                 ELSE <<n \div g, d \div g>>,
                      GCD(Abs(n), Abs(d))),
         N, D)

Num(i) == <<i, 1>>

Zero == <<0, 1>>

Unit == <<1, 1>>

Half == <<1, 2>>

RAdd(X, Y) ==
    Let2(LAMBDA x, y :
            IF IsNaN(x) \/ IsNaN(y) THEN NaN
            ELSE Let1(LAMBDA g :
                         Norm(x[1] * (y[2] \div g) + y[1] * (x[2] \div g),
                              (x[2] \div g) * y[2]),
                      GCD(x[2], y[2])),
         X, Y)

RNeg(X) == Let1(LAMBDA x : <<-x[1], x[2]>>, X)

RSub(X, Y) == RAdd(X, RNeg(Y))

RMul(X, Y) ==
    Let2(LAMBDA x, y :
            IF IsNaN(x) \/ IsNaN(y) THEN NaN
            ELSE Let2(LAMBDA g1, g2 :
                         Norm((x[1] \div g1) * (y[1] \div g2),
                              (x[2] \div g2) * (y[2] \div g1)),
                      GCD(Abs(x[1]), y[2]), GCD(Abs(y[1]), x[2])),
         X, Y)

\* x / y; the callers guard y # 0, as the code does
RDiv(X, Y) ==
    Let2(LAMBDA x, y :
            IF IsNaN(x) \/ IsNaN(y) \/ y[1] = 0 THEN NaN
            ELSE RMul(x, Norm(y[2], y[1])),
         X, Y)

RAbs(X) == Let1(LAMBDA x : <<Abs(x[1]), x[2]>>, X)

\* comparisons with NaN are false, as in IEEE arithmetic
RLt(X, Y) ==
    Let2(LAMBDA x, y : ~IsNaN(x) /\ ~IsNaN(y) /\ x[1] * y[2] < y[1] * x[2], X, Y)

RGe(X, Y) ==
    Let2(LAMBDA x, y : ~IsNaN(x) /\ ~IsNaN(y) /\ x[1] * y[2] >= y[1] * x[2], X, Y)

RECURSIVE RSum(_)
RSum(S) == Let1(LAMBDA s : IF s = <<>> THEN Zero ELSE RAdd(s[1], RSum(Tail(s))), S)

RECURSIVE RMax(_)
RMax(S) ==
    Let1(LAMBDA s :
            IF Len(s) = 1 THEN s[1]
            ELSE Let1(LAMBDA m : IF RLt(s[1], m) THEN m ELSE s[1], RMax(Tail(s))),
         S)

(* ------------------------------ matrices ----------------------------- *)

\* the sequence <<F(1), ..., F(n)>>, as an explicit tuple for the sizes the
\* model uses (n stocks, n * n rows of a Kronecker product)
Tab(N, F(_)) ==
    Let1(LAMBDA n :
            CASE n = 0 -> <<>>
              [] n = 1 -> <<F(1)>>
              [] n = 2 -> <<F(1), F(2)>>
              [] n = 3 -> <<F(1), F(2), F(3)>>
              [] n = 4 -> <<F(1), F(2), F(3), F(4)>>
              [] OTHER -> [i \in 1..n |-> F(i)],
         N)

\* the n x m matrix of F(i, j)
Mat(N, M, F(_, _)) ==
    Let2(LAMBDA n, m : Tab(n, LAMBDA i : Tab(m, LAMBDA j : F(i, j))), N, M)

Eye(n) == Mat(n, n, LAMBDA i, j : IF i = j THEN Unit ELSE Zero)

Zeros(n) == Mat(n, n, LAMBDA i, j : Zero)

NaNs(n) == Mat(n, n, LAMBDA i, j : NaN)

Diag(V) == Let1(LAMBDA v : Mat(Len(v), Len(v), LAMBDA i, j : IF i = j THEN v[i] ELSE Zero), V)

Transpose(X) == Let1(LAMBDA x : Mat(Len(x), Len(x), LAMBDA i, j : x[j][i]), X)

Dot(X, Y) ==
    Let2(LAMBDA x, y :
            Mat(Len(x), Len(x), LAMBDA i, j :
                RSum(Tab(Len(x), LAMBDA k : RMul(x[i][k], y[k][j])))),
         X, Y)

MatAdd(X, Y) ==
    Let2(LAMBDA x, y : Mat(Len(x), Len(x), LAMBDA i, j : RAdd(x[i][j], y[i][j])), X, Y)

MatSub(X, Y) ==
    Let2(LAMBDA x, y : Mat(Len(x), Len(x), LAMBDA i, j : RSub(x[i][j], y[i][j])), X, Y)

Scale(C, X) ==
    Let2(LAMBDA c, x : Mat(Len(x), Len(x), LAMBDA i, j : RMul(c, x[i][j])), C, X)

\* u[:, newaxis] * u[newaxis, :]
Outer(U) == Let1(LAMBDA u : Mat(Len(u), Len(u), LAMBDA i, j : RMul(u[i], u[j])), U)

Inner(U, V) ==
    Let2(LAMBDA u, v : RSum(Tab(Len(u), LAMBDA k : RMul(u[k], v[k]))), U, V)

\* X A X'
Sandwich(X, A) == Let1(LAMBDA x : Dot(Dot(x, A), Transpose(x)), X)

\* np.kron(X, Y): block (i, k) is X[i][k] * Y
Kron(X, Y) ==
    Let3(LAMBDA x, y, n :
            Mat(n * n, n * n, LAMBDA r, c :
                RMul(x[((r - 1) \div n) + 1][((c - 1) \div n) + 1],
                     y[((r - 1) % n) + 1][((c - 1) % n) + 1])),
         X, Y, Len(X))

HasNaN(X) == Let1(LAMBDA x : \E i \in 1..Len(x) : \E j \in 1..Len(x[i]) : IsNaN(x[i][j]), X)

(* ------------------- param_generic.py: ParamGeneric ------------------ *)

\* Python's None where a matrix is expected
NoMatrix == <<>>

\* cmat is None, a matrix decoded from theta, or the lower Cholesky factor of
\* a positive definite matrix m, kept as that matrix (the factor L of m is
\* the one lower triangular matrix with positive diagonal and L L' = m).
NoCmat == [kind |-> "none", m |-> NoMatrix]

\* the rows and columns 2..n of X after eliminating with the pivot X[1][1]
Schur(X) ==
    Let1(LAMBDA x :
            Mat(Len(x) - 1, Len(x) - 1, LAMBDA i, j :
                RSub(x[i + 1][j + 1], RDiv(RMul(x[i + 1][1], x[1][j + 1]), x[1][1]))),
         X)

\* sl.cholesky succeeds iff every pivot of the elimination is positive
RECURSIVE PosDef(_)
PosDef(X) ==
    Let1(LAMBDA x : Len(x) = 0 \/ (RLt(Zero, x[1][1]) /\ PosDef(Schur(x))), X)

\* Variant of cholesky that never fails: what find_cmat would return if
\* the factorization accepted every matrix.  C8 fails under it.
cholesky_unchecked(ccmat) == [kind |-> "chol", m |-> ccmat]

\* sl.cholesky(ccmat, 1), LinAlgError caught
cholesky(ccmat) ==
    Let1(LAMBDA cc : IF PosDef(cc) THEN [kind |-> "chol", m |-> cc] ELSE NoCmat, ccmat)

\* cmat.dot(cmat.T)
CCt(cmat) ==
    Let1(LAMBDA c : IF c.kind = "chol" THEN c.m ELSE Dot(c.m, Transpose(c.m)), cmat)

find_cmat(amat, bmat, target) ==
    Let1(LAMBDA t : cholesky(MatSub(MatSub(t, Sandwich(amat, t)), Sandwich(bmat, t))),
         target)

fixed_point(uvar, amat, bmat, ccmat) ==
    Let1(LAMBDA h :
            MatSub(MatSub(MatSub(Scale(Num(2), h), ccmat), Sandwich(amat, h)),
                   Sandwich(bmat, h)),
         uvar)

\* scipy.optimize.fixed_point defaults: maxiter and 1 / xtol
MaxIter == 500

InvXTol == 100000000

\* |x| < xtol
BelowTol(X) ==
    Let1(LAMBDA x : ~IsNaN(x) /\ (x[1] = 0 \/ Abs(x[1]) <= (x[2] - 1) \div InvXTol), X)

\* the accelerated iterate of scipy.optimize.fixed_point (method "del2")
\* from p0, p1 = f(p0) and p2 = f(p1)
Del2(P0, P1, P2) ==
    Let3(LAMBDA p0, p1, p2 :
            Mat(Len(p0), Len(p0), LAMBDA i, j :
                Let2(LAMBDA d, e :
                        IF d[1] # 0 THEN RSub(p0[i][j], RDiv(RMul(e, e), d))
                        ELSE p2[i][j],
                     RAdd(RSub(p2[i][j], RMul(Num(2), p1[i][j])), p0[i][j]),
                     RSub(p1[i][j], p0[i][j]))),
         P0, P1, P2)

Del2Step(P0, amat, bmat, ccmat) ==
    Let1(LAMBDA p0 :
            Let1(LAMBDA p1 : Del2(p0, p1, fixed_point(p1, amat, bmat, ccmat)),
                 fixed_point(p0, amat, bmat, ccmat)),
         P0)

Converged(P, P0) ==
    Let2(LAMBDA p, p0 :
            \A i \in 1..Len(p0) : \A j \in 1..Len(p0) :
                BelowTol(IF p0[i][j][1] # 0
                         THEN RDiv(RSub(p[i][j], p0[i][j]), p0[i][j]) ELSE p[i][j]),
         P, P0)

\* one pass of the loop of scipy.optimize.fixed_point from st, where st.p
\* is the current iterate and st.done says it has converged
FixedPointPass(ST, amat, bmat, ccmat) ==
    Let1(LAMBDA st :
            Let1(LAMBDA p : [p |-> p, done |-> Converged(p, st.p)],
                 Del2Step(st.p, amat, bmat, ccmat)),
         ST)

\* up to n more passes from st; the passes are taken by halves, which
\* keeps the evaluation shallow
RECURSIVE FixedPointRun(_, _, _, _, _)
FixedPointRun(ST, amat, bmat, ccmat, N) ==
    Let2(LAMBDA st, n :
            IF n = 0 \/ st.done THEN st
            ELSE IF n = 1 THEN FixedPointPass(st, amat, bmat, ccmat)
            ELSE FixedPointRun(FixedPointRun(st, amat, bmat, ccmat, n \div 2),
                               amat, bmat, ccmat, n - (n \div 2)),
         ST, N)

\* scipy.optimize.fixed_point(fun, hvar): the converged iterate, or
\* RuntimeError after maxiter passes, which find_stationary_var catches
\* and turns into None
sco_fixed_point(x0, amat, bmat, ccmat) ==
    Let1(LAMBDA st : IF st.done THEN st.p ELSE NoMatrix,
         FixedPointRun([p |-> x0, done |-> FALSE], amat, bmat, ccmat, MaxIter))

find_stationary_var(amat, bmat, cmat) ==
    Let3(LAMBDA a, b, cc : sco_fixed_point(Eye(Len(a)), a, b, cc), amat, bmat, CCt(cmat))

\* sl.eigvals of a triangular matrix: its diagonal.  A and B of the
\* restrictions modelled (scalar, diagonal) are diagonal, and so is K.
Eigvals(K) == Let1(LAMBDA k : Tab(Len(k), LAMBDA i : k[i][i]), K)

constraint(amat, bmat) ==
    Let2(LAMBDA kron_a, kron_b :
            Let1(LAMBDA ev : RMax(Tab(Len(ev), LAMBDA i : RAbs(ev[i]))),
                 Eigvals(MatAdd(kron_a, kron_b))),
         Kron(amat, amat), Kron(bmat, bmat))

(* ------------------------------ utils.py ----------------------------- *)

\* hvar is the sequence of the nobs blocks H_0 .. H_{nobs-1} (the diagonal
\* blocks of the array that filter_var and likelihood index), innov the
\* sequence of the nobs rows u_0 .. u_{nobs-1}.  Python's index i is i + 1.

\* Variant of filter_step that takes the current innovation innov[i]
\* where the code takes innov[i - 1].  C4 fails under it.
filter_step_current(hvar, innov, cc_mat, a_mat, b_mat, i) ==
    MatAdd(MatAdd(cc_mat, Sandwich(a_mat, Outer(innov[i]))),
           Sandwich(b_mat, hvar[i - 1]))

\* the body of the loop of filter_var for one i
filter_step(hvar, innov, cc_mat, a_mat, b_mat, i) ==
    MatAdd(MatAdd(cc_mat, Sandwich(a_mat, Outer(innov[i - 1]))),
           Sandwich(b_mat, hvar[i - 1]))

\* the loop of filter_var from index i on
RECURSIVE filter_loop(_, _, _, _, _, _)
filter_loop(HV, innov, cc_mat, a_mat, b_mat, I) ==
    Let2(LAMBDA hvar, i :
            IF i > Len(innov) THEN hvar
            ELSE filter_loop([hvar EXCEPT
                                 ![i] = filter_step(hvar, innov, cc_mat, a_mat, b_mat, i)],
                             innov, cc_mat, a_mat, b_mat, i + 1),
         HV, I)

filter_var(hvar, innov, c_mat, a_mat, b_mat) ==
    Let3(LAMBDA cc, a, b : filter_loop(hvar, innov, cc, a, b, 2), CCt(c_mat), a_mat, b_mat)

\* the first row of X whose first entry is largest in magnitude among the
\* rows from i on (the pivot row of LU with partial pivoting)
RECURSIVE PivotRow(_, _)
PivotRow(X, I) ==
    Let2(LAMBDA x, i :
            IF i = Len(x) THEN i
            ELSE Let1(LAMBDA r : IF RLt(RAbs(x[i][1]), RAbs(x[r][1])) THEN r ELSE i,
                      PivotRow(x, i + 1)),
         X, I)

\* entries 1 and p exchanged
Swap(X, P) ==
    Let2(LAMBDA x, p :
            Tab(Len(x), LAMBDA i : IF i = 1 THEN x[p] ELSE IF i = p THEN x[1] ELSE x[i]),
         X, P)

\* the diagonal of U in the LU factorization of one block; after a zero
\* pivot the factorization stops
RECURSIVE LUDiag(_)
LUDiag(X) ==
    Let1(LAMBDA x :
            IF Len(x) = 0 THEN <<>>
            ELSE Let1(LAMBDA y :
                         <<y[1][1]>> \o (IF y[1][1] = Zero
                                         THEN Tab(Len(x) - 1, LAMBDA i : Zero)
                                         ELSE LUDiag(Schur(y))),
                      Swap(x, PivotRow(x, 1))),
         X)

\* splu raises RuntimeError when a pivot is exactly zero
Singular(X) == Let1(LAMBDA d : \E i \in 1..Len(d) : d[i] = Zero, LUDiag(X))

\* factor.solve for one block: x with X x = v, by elimination
RECURSIVE LUSolve(_, _)
LUSolve(X, V) ==
    Let3(LAMBDA x, v, p :
            IF Len(x) = 0 THEN <<>>
            ELSE Let2(LAMBDA y, w :
                         Let1(LAMBDA rest :
                                 <<RDiv(RSub(w[1],
                                             RSum(Tab(Len(v) - 1, LAMBDA j :
                                                      RMul(y[1][j + 1], rest[j])))),
                                        y[1][1])>> \o rest,
                              LUSolve(Schur(y),
                                      Tab(Len(v) - 1, LAMBDA i :
                                          RSub(w[i + 1],
                                               RDiv(RMul(y[i + 1][1], w[1]), y[1][1]))))),
                      Swap(x, p), Swap(v, p)),
         X, V, IF Len(X) = 0 THEN 0 ELSE PivotRow(X, 1))

\* np.diag(factor.U.toarray()): the diagonals of all blocks, in order
RECURSIVE diag_factor(_)
diag_factor(HV) ==
    Let1(LAMBDA hvar : IF hvar = <<>> THEN <<>>
                       ELSE LUDiag(hvar[1]) \o diag_factor(Tail(hvar)),
         HV)

\* Variant of LogDetArg without np.abs.  C9 fails under it.
RECURSIVE LogDetArgSigned(_)
LogDetArgSigned(D) ==
    Let1(LAMBDA d :
            IF d = <<>> THEN Unit
            ELSE IF IsNaN(d[1]) THEN LogDetArgSigned(Tail(d))
            ELSE RMul(d[1], LogDetArgSigned(Tail(d))),
         D)

\* np.log(np.abs(diag_factor[~np.isnan(diag_factor)])).sum(), kept as the
\* number whose logarithm it is: the product of the magnitudes of the
\* entries that are not NaN
RECURSIVE LogDetArg(_)
LogDetArg(D) ==
    Let1(LAMBDA d :
            IF d = <<>> THEN Unit
            ELSE IF IsNaN(d[1]) THEN LogDetArg(Tail(d))
            ELSE RMul(RAbs(d[1]), LogDetArg(Tail(d))),
         D)

\* (factor.solve(innov) * innov).sum() over the flattened innovations:
\* block t solves against row t
RECURSIVE QuadSum(_, _)
QuadSum(HV, U) ==
    Let2(LAMBDA hvar, innov :
            IF hvar = <<>> THEN Zero
            ELSE RAdd(Inner(LUSolve(hvar[1], innov[1]), innov[1]),
                      QuadSum(Tail(hvar), Tail(innov))),
         HV, U)

\* A float returned by the objective is log(logarg) + quad, kept as the
\* pair: two such values with rational parts are equal only if both parts
\* are.  tag says what the call did: "value" (returned log(logarg) + quad,
\* which is NaN when quad is), "sentinel" (returned 1e10), "raise" (an
\* exception left the call).
Value(logarg, quad) == [tag |-> "value", logarg |-> logarg, quad |-> quad]

Raised == [tag |-> "raise", logarg |-> Unit, quad |-> Zero]

\* utils.likelihood: the outcomes the call can have.  On input with NaN
\* entries the factorization either reports a singular factor or returns
\* factors holding NaN.
likelihood(HV, U) ==
    Let2(LAMBDA hvar, innov :
            IF \E t \in 1..Len(hvar) : Singular(hvar[t]) THEN {Raised}
            ELSE {Value(LogDetArg(diag_factor(hvar)), QuadSum(hvar, innov))}
                 \cup (IF \E t \in 1..Len(hvar) : HasNaN(hvar[t]) THEN {Raised} ELSE {}),
         HV, U)

estimate_h0(U) ==
    Let1(LAMBDA innov :
            Mat(Len(innov[1]), Len(innov[1]), LAMBDA i, j :
                RDiv(RSum(Tab(Len(innov), LAMBDA t : RMul(innov[t][i], innov[t][j]))),
                     Num(Len(innov)))),
         U)

(* --------------------- parameters from a flat vector ----------------- *)

\* BEKKParams(theta=, target=, nstocks=, restriction=): A and B from the
\* first 2 (scalar) or 2 n (diagonal) entries of theta; C derived from the
\* target when there is one, else the lower triangle filled row by row
\* from the rest of theta.  The restriction "full" is not modelled.
Chunk(restriction, nstocks) == IF restriction = "scalar" THEN 1 ELSE nstocks

ThetaLen(restriction, nstocks, target) ==
    2 * Chunk(restriction, nstocks)
        + (IF target = NoMatrix THEN (nstocks * (nstocks + 1)) \div 2 ELSE 0)

\* the value of a parameter object whose construction raised
BadParam == [amat |-> NoMatrix, bmat |-> NoMatrix, cmat |-> NoCmat]

BEKKParams(theta, restriction, target, nstocks) ==
    IF Len(theta) # ThetaLen(restriction, nstocks, target) THEN BadParam
    ELSE Let3(LAMBDA k, amat, bmat :
                 [amat |-> amat, bmat |-> bmat,
                  cmat |-> IF target # NoMatrix THEN find_cmat(amat, bmat, target)
                           ELSE [kind |-> "mat",
                                 m |-> Mat(nstocks, nstocks, LAMBDA i, j :
                                           IF j > i THEN Zero
                                           ELSE theta[2 * k + ((i * (i - 1)) \div 2) + j])]],
              Chunk(restriction, nstocks),
              IF restriction = "scalar" THEN Scale(theta[1], Eye(nstocks))
              ELSE Diag(SubSeq(theta, 1, Chunk(restriction, nstocks))),
              IF restriction = "scalar" THEN Scale(theta[2], Eye(nstocks))
              ELSE Diag(SubSeq(theta, Chunk(restriction, nstocks) + 1,
                               2 * Chunk(restriction, nstocks))))

\* ParamGeneric.get_uvar
get_uvar(param) == find_stationary_var(param.amat, param.bmat, param.cmat)

\* BEKKParams.unconditional_var
unconditional_var(param) == get_uvar(param)

\* The compiled recursion and evaluator that bekk.py imports are not part of
\* the sources; they are taken to compute what filter_var and likelihood
\* of utils.py compute, each argument in its role.
recursion(hvar, innov, amat, bmat, cmat) == filter_var(hvar, innov, cmat, amat, bmat)

cython_likelihood(hvar, innov) == likelihood(hvar, innov)

(* ------------------------------ bekk.py: BEKK ------------------------ *)

VARIABLES
    innov,        \* self.innov: the nobs rows of nstocks innovations
    param_start,  \* self.param_start: None or its restriction
    hvar,         \* self.hvar: None or the nobs filtered blocks
    opt_out,      \* self.opt_out: None or the optimizer's result
    param_final,  \* self.param_final: None or the final parameters
    pc,           \* where estimate() is: "new", "minimize", "done", "raised"
    target,       \* estimate's local target (None without variance targeting)
    restriction,  \* estimate's argument restriction
    last,         \* the last call of the objective: theta, outcome, and
                  \* whether the recursion and the evaluator ran
    args,         \* the arguments of a direct call of one function
    result        \* what that call returned

vars == <<innov, param_start, hvar, opt_out, param_final, pc, target,
          restriction, last, args, result>>

\* the longest innovation series
MaxObs == 2

Stocks == {1, 2}

InnovRows(n) ==
    IF n = 1 THEN {<<Zero>>, <<Unit>>}
    ELSE {<<Unit, Zero>>, <<Unit, Unit>>}

InnovSeries ==
    UNION {[1..nobs -> InnovRows(n)] : nobs \in 1..MaxObs, n \in Stocks}

Restrictions == {"scalar", "diagonal"}

\* the trial vectors the optimizer may try: the entries of A then those of
\* B.  In each family half of the vectors satisfy the constraint.
ABThetas(r, n) ==
    IF r = "scalar" THEN {<<a, b>> : a \in {Half, Unit}, b \in {Zero, Half}}
    ELSE {va \o vb : va \in {Tab(n, LAMBDA i : Half),
                             Tab(n, LAMBDA i : IF i = n THEN Unit ELSE Half)},
                     vb \in {Tab(n, LAMBDA i : Zero),
                             Tab(n, LAMBDA i : IF i = 1 THEN Half ELSE Zero)}}

\* the entries of the lower triangle of C tried: zero, and the identity
CThetas(n) ==
    {Tab((n * (n + 1)) \div 2, LAMBDA i : Zero),
     Tab((n * (n + 1)) \div 2, LAMBDA i : IF i \in {1, 3} THEN Unit ELSE Zero)}

Thetas(r, n, tgt) ==
    IF tgt # NoMatrix THEN ABThetas(r, n)
    ELSE {ab \o c : ab \in ABThetas(r, n), c \in CThetas(n)}

None == "None"

Sentinel == [tag |-> "sentinel", logarg |-> Unit, quad |-> Zero]

NoArgs == [fn |-> "none"]

NoResult == [fn |-> "none"]

NoCall == [theta |-> <<>>, ret |-> [tag |-> "none", logarg |-> Unit, quad |-> Zero],
           ran |-> FALSE]

\* BEKK.__init__
Init ==
    /\ innov \in InnovSeries
    /\ param_start = None
    /\ hvar = NoMatrix
    /\ opt_out = None
    /\ param_final = None
    /\ pc = "new"
    /\ target = NoMatrix
    /\ restriction = None
    /\ last = NoCall
    /\ args = NoArgs
    /\ result = NoResult

\* bekk.py line 189: the target handed to the objective and the final decode
estimate_target(U) ==
    Let2(LAMBDA u, nstocks :
            Mat(nstocks, nstocks, LAMBDA i, j :
                RDiv(RSum(Tab(Len(u), LAMBDA t : RMul(u[t][i], u[t][j]))), Num(nstocks))),
         U, Len(U[1]))

\* Variant of Infeasible with > where the code has >=.  C1 fails under it.
InfeasibleStrict(param) ==
    \/ RLt(Unit, constraint(param.amat, param.bmat))
    \/ param.cmat = NoCmat

\* bekk.py line 106
Infeasible(param) ==
    \/ RGe(constraint(param.amat, param.bmat), Unit)
    \/ param.cmat = NoCmat

\* bekk.py lines 109-111: a fresh buffer of zeros whose block 0 is the
\* unconditional variance; assigning None into the float array stores NaN
fresh_hvar(U, UV) ==
    Let3(LAMBDA u, uvar, nstocks :
            [t \in 1..Len(u) |->
                IF t = 1 THEN (IF uvar = NoMatrix THEN NaNs(nstocks) ELSE uvar)
                ELSE Zeros(nstocks)],
         U, UV, Len(U[1]))

\* Variant of Evaluate that allocates and initialises the buffer only when
\* the estimator holds none.  C10 fails under it.
EvaluateKeepingBuffer(param, u) ==
    Let1(LAMBDA hv :
            {[ret |-> out, hvar |-> hv, ran |-> TRUE] : out \in cython_likelihood(hv, u)},
         recursion(IF hvar = NoMatrix THEN fresh_hvar(u, unconditional_var(param)) ELSE hvar,
                   u, param.amat, param.bmat, param.cmat))

\* bekk.py lines 109-120 for a feasible param: the outcomes of the call,
\* each with the value left in self.hvar
Evaluate(param, u) ==
    Let1(LAMBDA hv :
            {[ret |-> out, hvar |-> hv, ran |-> TRUE] : out \in cython_likelihood(hv, u)},
         recursion(fresh_hvar(u, unconditional_var(param)), u,
                   param.amat, param.bmat, param.cmat))

\* BEKK.likelihood(theta, target)
BEKK_likelihood(theta, tgt, u, r, hvar_old) ==
    Let1(LAMBDA param :
            IF Infeasible(param)
            THEN {[ret |-> Sentinel, hvar |-> hvar_old, ran |-> FALSE]}
            ELSE Evaluate(param, u),
         BEKKParams(theta, r, tgt, Len(u[1])))

\* estimate(restriction=r, var_target=vt, param_start=ps) up to the call of
\* minimize; with no initial guess self.param_start.theta raises
Estimate(r, vt, ps) ==
    /\ pc = "new"
    /\ target' = IF vt THEN estimate_target(innov) ELSE NoMatrix
    /\ restriction' = r
    /\ param_start' = IF ps # None THEN ps ELSE param_start
    /\ pc' = IF param_start' = None THEN "raised" ELSE "minimize"
    /\ UNCHANGED <<innov, hvar, opt_out, param_final, last, args, result>>

\* minimize calls self.likelihood(theta, target); an exception raised by
\* the objective leaves minimize and estimate
Likelihood(theta) ==
    /\ pc = "minimize"
    /\ \E o \in BEKK_likelihood(theta, target, innov, param_start, hvar) :
        /\ hvar' = o.hvar
        /\ last' = [theta |-> theta, ret |-> o.ret, ran |-> o.ran]
        /\ pc' = IF o.ret.tag = "raise" THEN "raised" ELSE "minimize"
    /\ UNCHANGED <<innov, param_start, opt_out, param_final, target, restriction,
                   args, result>>

\* minimize returns its last point; estimate stores the result and decodes
\* the final parameters (bekk.py lines 201-209)
OptimizerReturn(success) ==
    /\ pc = "minimize"
    /\ last # NoCall
    /\ opt_out' = [x |-> last.theta, success |-> success]
    /\ param_final' = BEKKParams(last.theta, restriction, target, Len(innov[1]))
    /\ pc' = IF param_final' = BadParam THEN "raised" ELSE "done"
    /\ UNCHANGED <<innov, param_start, hvar, target, restriction, last, args, result>>

\* s - X for a number s: numpy broadcasts the number over the entries of X
ScalarMinus(S, X) ==
    Let2(LAMBDA s, x : Mat(Len(x), Len(x), LAMBDA i, j : RSub(s, x[i][j])), S, X)

\* what estimate_error hands back: the error sequence, or an exception
ErrorValue(error) == [tag |-> "value", error |-> error]

ErrorRaised == [tag |-> "raise", error |-> <<>>]

\* BEKK.estimate_error(param) on the estimator's innovations u and stored
\* sequence hv.
\* innov[i] is a one-dimensional row, so innov[i].dot(innov[i].T) is the
\* number sum_k u[i][k]^2.  The call raises when no sequence is stored
\* (error[0] of empty_like(None)), when param has no C, or when the
\* unconditional variance is None.
estimate_error(param, U, HV) ==
    IF HV = NoMatrix \/ param.cmat.kind = "none" THEN ErrorRaised
    ELSE Let3(LAMBDA u, hv, uvar :
                 IF uvar = NoMatrix THEN ErrorRaised
                 ELSE ErrorValue(
                        [i \in 1..Len(u) |->
                            IF i = 1 THEN ScalarMinus(Inner(u[1], u[1]), uvar)
                            ELSE MatSub(MatSub(ScalarMinus(Inner(u[i], u[i]), uvar),
                                               Sandwich(param.amat,
                                                        ScalarMinus(Inner(u[i-1], u[i-1]),
                                                                    uvar))),
                                        Sandwich(param.bmat, MatSub(hv[i-1], uvar)))]),
              U, HV, unconditional_var(param))

Next ==
    \/ \E r \in Restrictions, vt \in BOOLEAN, ps \in Restrictions \cup {None} :
          Estimate(r, vt, ps)
    \/ \E theta \in Thetas(param_start, Len(innov[1]), target) : Likelihood(theta)
    \/ \E success \in BOOLEAN : OptimizerReturn(success)

Spec == Init /\ [][Next]_vars


(* ------------------- direct calls of single functions ---------------- *)

\* The functions of param_generic.py and utils.py called directly, one call
\* per behaviour: args holds the function's name and arguments, result what
\* it returned.

UnitStocks == {1, 2}

UnitRows(n) ==
    IF n = 1 THEN {<<Zero>>, <<Unit>>}
    ELSE {<<Zero, Zero>>, <<Unit, Zero>>, <<Unit, Unit>>}

UnitSeries(n) == UNION {[1..nobs -> UnitRows(n)] : nobs \in 1..MaxObs}

\* diagonal parameter matrices
UnitDiags(n) ==
    IF n = 1 THEN {<<<<Zero>>>>, <<<<Half>>>>, <<<<Unit>>>>}
    ELSE {Zeros(2), Scale(Half, Eye(2)), Eye(2), Diag(<<Half, Unit>>)}

\* parameter matrices: the diagonal ones and, for two stocks, a triangular one
UnitMats(n) ==
    IF n = 1 THEN UnitDiags(n) ELSE UnitDiags(n) \cup {<<<<Half, Unit>>, <<Zero, Half>>>>}

UnitCmats(n) ==
    IF n = 1 THEN {[kind |-> "mat", m |-> <<<<Zero>>>>], [kind |-> "mat", m |-> <<<<Unit>>>>]}
    ELSE {[kind |-> "mat", m |-> Zeros(2)],
          [kind |-> "mat", m |-> <<<<Unit, Zero>>, <<Unit, Unit>>>>],
          [kind |-> "chol", m |-> <<<<Num(2), Unit>>, <<Unit, Num(2)>>>>]}

UnitTargets(n) == {estimate_h0(u) : u \in UnitSeries(n)}

\* the buffer BEKK.likelihood hands to the recursion: block 0 set, the rest 0
UnitBuffers(n, nobs) ==
    {[t \in 1..nobs |-> IF t = 1 THEN h0 ELSE Zeros(n)] : h0 \in {Eye(n), Scale(Num(2), Eye(n))}}

\* blocks handed to the evaluator: positive definite ones, one that is not
\* and needs a row exchange, a singular one and one of NaN
UnitBlocks(n) ==
    IF n = 1
    THEN {<<<<Unit>>>>, <<<<Num(2)>>>>, <<<<Num(-1)>>>>, <<<<Zero>>>>, NaNs(1)}
    ELSE {Eye(2), Scale(Num(2), Eye(2)), <<<<Num(2), Unit>>, <<Unit, Num(2)>>>>,
          <<<<Zero, Unit>>, <<Unit, Zero>>>>, <<<<Unit, Unit>>, <<Unit, Unit>>>>, NaNs(2)}

FindCmatArgs ==
    {[fn |-> "find_cmat", amat |-> a, bmat |-> b, target |-> t] :
        a \in UnitMats(1), b \in UnitMats(1), t \in UnitTargets(1)}
    \cup {[fn |-> "find_cmat", amat |-> a, bmat |-> b, target |-> t] :
             a \in UnitMats(2), b \in UnitMats(2), t \in UnitTargets(2)}

ConstraintArgs ==
    UNION {{[fn |-> "constraint", amat |-> a, bmat |-> b] :
               a \in UnitMats(n), b \in UnitMats(n)} : n \in UnitStocks}

FindStationaryVarArgs ==
    UNION {{[fn |-> "find_stationary_var", amat |-> a, bmat |-> b, cmat |-> c] :
               a \in UnitDiags(n) \ {Zeros(2)}, b \in UnitDiags(n) \ {Zeros(2)},
               c \in UnitCmats(n)} : n \in UnitStocks}

FilterVarArgs ==
    UNION {{[fn |-> "filter_var", hvar |-> h, innov |-> u, c_mat |-> c,
             a_mat |-> a, b_mat |-> b] :
               h \in UnitBuffers(Len(u[1]), Len(u)), c \in UnitCmats(Len(u[1])),
               a \in UnitMats(Len(u[1])) \ {Zeros(Len(u[1])), Eye(Len(u[1]))},
               b \in UnitMats(Len(u[1])) \ {Zeros(Len(u[1])), Eye(Len(u[1]))}} :
           u \in UNION {UnitSeries(n) : n \in UnitStocks}}

LikelihoodArgs ==
    UNION {{[fn |-> "likelihood", hvar |-> h, innov |-> u] :
               h \in [1..nobs -> UnitBlocks(n)],
               u \in [1..nobs -> UnitRows(n) \ {<<Zero, Zero>>}]} :
           n \in UnitStocks, nobs \in 1..MaxObs}

NoEstimator ==
    /\ innov = <<>>
    /\ param_start = None
    /\ hvar = NoMatrix
    /\ opt_out = None
    /\ param_final = None
    /\ pc = "none"
    /\ target = NoMatrix
    /\ restriction = None
    /\ last = NoCall

\* parameter objects handed to estimate_error: diagonal A and B that
\* satisfy the constraint, C given, and C missing
ErrorParams(n) ==
    {[amat |-> a, bmat |-> b, cmat |-> c] :
        a \in {Scale(Half, Eye(n)), Diag(Tab(n, LAMBDA i : IF i = n THEN Zero ELSE Half))},
        b \in {Zeros(n), Scale(Half, Eye(n))},
        c \in UnitCmats(n) \cup {NoCmat}}

\* parameters on the boundary of the constraint, for which the solver runs
\* all its passes and the unconditional variance is None
BoundaryParam(n) ==
    [amat |-> Eye(n), bmat |-> Zeros(n), cmat |-> [kind |-> "mat", m |-> Eye(n)]]

\* the parameters of an earlier evaluation of the objective
EarlierParam(n) ==
    [amat |-> Scale(Half, Eye(n)), bmat |-> Scale(Half, Eye(n)),
     cmat |-> [kind |-> "mat", m |-> Eye(n)]]

\* the sequences the estimator can hold when estimate_error(p) is called:
\* none, or the one stored by an evaluation of the objective that passed
\* the feasibility check, at p or at earlier parameters
StoredSequences(p, u) ==
    {NoMatrix}
        \cup UNION {{o.hvar : o \in Evaluate(q, u)} :
                       q \in {r \in {p, EarlierParam(Len(u[1]))} : ~Infeasible(r)}}

\* the calls of estimate_error: every series with the parameters of
\* ErrorParams, and the series of one observation with BoundaryParam
EstimateErrorCalls ==
    UNION {UNION {{[innov |-> u, hvar |-> h, param |-> p] : h \in StoredSequences(p, u)} :
                     p \in ErrorParams(Len(u[1]))
                              \cup (IF Len(u) = 1 THEN {BoundaryParam(Len(u[1]))} ELSE {})} :
           u \in UNION {UnitSeries(n) : n \in UnitStocks}}

\* an estimator holding innovations and a stored sequence, on which
\* estimate_error is about to be called; the call reads no other field
EstimatorFor(call) ==
    /\ innov = call.innov
    /\ param_start = None
    /\ hvar = call.hvar
    /\ opt_out = None
    /\ param_final = None
    /\ pc = "none"
    /\ target = NoMatrix
    /\ restriction = None
    /\ last = NoCall

InitUnit ==
    /\ \/ /\ NoEstimator
          /\ args \in FindCmatArgs \cup ConstraintArgs \cup FindStationaryVarArgs
                          \cup FilterVarArgs \cup LikelihoodArgs
       \/ \E call \in EstimateErrorCalls :
             /\ EstimatorFor(call)
             /\ args = [fn |-> "estimate_error", param |-> call.param]
    /\ result = NoResult

Returns(fn, val) ==
    /\ result' = [fn |-> fn, val |-> val]
    /\ UNCHANGED <<innov, param_start, hvar, opt_out, param_final, pc, target,
                   restriction, last, args>>

CallFindCmat ==
    /\ args.fn = "find_cmat" /\ result = NoResult
    /\ Returns("find_cmat", find_cmat(args.amat, args.bmat, args.target))

CallConstraint ==
    /\ args.fn = "constraint" /\ result = NoResult
    /\ Returns("constraint", constraint(args.amat, args.bmat))

CallFindStationaryVar ==
    /\ args.fn = "find_stationary_var" /\ result = NoResult
    /\ Returns("find_stationary_var",
               find_stationary_var(args.amat, args.bmat, args.cmat))

CallFilterVar ==
    /\ args.fn = "filter_var" /\ result = NoResult
    /\ Returns("filter_var",
               filter_var(args.hvar, args.innov, args.c_mat, args.a_mat, args.b_mat))

CallLikelihood ==
    /\ args.fn = "likelihood" /\ result = NoResult
    /\ \E out \in likelihood(args.hvar, args.innov) : Returns("likelihood", out)

CallEstimateError ==
    /\ args.fn = "estimate_error" /\ result = NoResult
    /\ Returns("estimate_error", estimate_error(args.param, innov, hvar))

NextUnit ==
    \/ CallFindCmat
    \/ CallConstraint
    \/ CallFindStationaryVar
    \/ CallFilterVar
    \/ CallLikelihood
    \/ CallEstimateError

SpecUnit == InitUnit /\ [][NextUnit]_vars

(* ------------------------------ properties --------------------------- *)

\* The largest |a_ii a_jj + b_ii b_jj|: the spectral radius of
\* kron(A, A) + kron(B, B) when A and B are triangular.
KronRadius(amat, bmat) ==
    RMax(Tab(Len(amat) * Len(amat), LAMBDA k :
             RAbs(RAdd(RMul(amat[((k - 1) \div Len(amat)) + 1][((k - 1) \div Len(amat)) + 1],
                            amat[((k - 1) % Len(amat)) + 1][((k - 1) % Len(amat)) + 1]),
                       RMul(bmat[((k - 1) \div Len(amat)) + 1][((k - 1) \div Len(amat)) + 1],
                            bmat[((k - 1) % Len(amat)) + 1][((k - 1) % Len(amat)) + 1])))))

\* the parameters the objective decoded from its last trial vector
LastParam == BEKKParams(last.theta, param_start, target, Len(innov[1]))

\* the last trial vector has a constraint score >= 1, or no C
LastInfeasible ==
    /\ last # NoCall
    /\ \/ RGe(KronRadius(LastParam.amat, LastParam.bmat), Unit)
       \/ LastParam.cmat = NoCmat

\* C1: a trial vector whose decoded parameters have a constraint score >= 1
\* or a missing C makes the objective return the sentinel, and neither the
\* recursion nor the evaluator runs.
C1_SentinelWhenInfeasible ==
    LastInfeasible => (last.ret = Sentinel /\ ~last.ran)

\* a trial vector with constraint score >= 1 and a C was answered with the
\* sentinel
C1_Witness ==
    /\ LastInfeasible
    /\ LastParam.cmat # NoCmat
    /\ last.ret = Sentinel

\* C2 as stated: whenever the evaluator ran on a sequence with a block that
\* has no (Cholesky) factorization, the objective returned the sentinel.
C2_FactorizationFailureGivesSentinel ==
    (last.ran /\ \E t \in 1..Len(hvar) : ~PosDef(hvar[t])) => last.ret = Sentinel

\* C5 as stated: the target of a run with variance targeting is the sample
\* covariance that estimate_h0 returns.
C5_TargetIsSampleCovariance ==
    target # NoMatrix => target = estimate_h0(innov)

\* every innovation is zero
ZeroSeries(u) == \A t \in 1..Len(u) : \A i \in 1..Len(u[t]) : u[t][i] = Zero

\* C7 as stated: with a degenerate series estimate never reaches the
\* optimizer, and the objective is never evaluated.
C7_DegenerateSeriesFailsFast ==
    ZeroSeries(innov) => (pc # "minimize" /\ last = NoCall)

\* the sequence that an evaluation of theta computes from scratch
Recomputed(theta) ==
    Let1(LAMBDA param :
            recursion(fresh_hvar(innov, unconditional_var(param)), innov,
                      param.amat, param.bmat, param.cmat),
         BEKKParams(theta, param_start, target, Len(innov[1])))

\* C10, amended: an evaluation that passes the feasibility check leaves in
\* the estimator the sequence computed from scratch from its theta, the
\* target and the innovations; an evaluation that returns the sentinel
\* leaves the sequence that was there before.
C10_RecomputedOrKept ==
    /\ [](last.ran => hvar = Recomputed(last.theta))
    /\ [][~last'.ran => hvar' = hvar]_vars

\* a sentinel evaluation after one that computed a sequence
C10_Witness ==
    /\ last # NoCall
    /\ ~last.ran
    /\ hvar # NoMatrix

\* what evaluating theta on a new estimator leaves in self.hvar
HeldAfter(theta) ==
    (CHOOSE o \in BEKK_likelihood(theta, target, innov, param_start, NoMatrix) : TRUE).hvar

\* C10 as stated: the sequence held after evaluating a theta depends only
\* on that theta, the target and the innovations.
C10_DependsOnlyOnTheta ==
    last # NoCall => hvar = HeldAfter(last.theta)

\* a direct call of fn has returned
Called(fn) == args.fn = fn /\ result # NoResult

\* C C' computed entry by entry
RefCC(c) ==
    IF c.kind = "chol" THEN c.m
    ELSE Mat(Len(c.m), Len(c.m), LAMBDA i, j :
             RSum(Tab(Len(c.m), LAMBDA k : RMul(c.m[i][k], c.m[j][k]))))

\* entry (i, j) of X S X', as the double sum over k and l
RefSandwichEntry(x, s, i, j) ==
    RSum(Tab(Len(x), LAMBDA k :
             RSum(Tab(Len(x), LAMBDA l : RMul(RMul(x[i][k], s[k][l]), x[j][l])))))

\* C C' + A (u u') A' + B H B'
RefStep(c, a, b, u, h) ==
    Mat(Len(a), Len(a), LAMBDA i, j :
        RAdd(RAdd(RefCC(c)[i][j],
                  RefSandwichEntry(a, Mat(Len(u), Len(u), LAMBDA k, l : RMul(u[k], u[l])), i, j)),
             RefSandwichEntry(b, h, i, j)))

Residual(h, a, b, c) ==
    Mat(Len(a), Len(a), LAMBDA i, j :
        RSub(RSub(RSub(h[i][j], RefCC(c)[i][j]), RefSandwichEntry(a, h, i, j)),
             RefSandwichEntry(b, h, i, j)))

\* C6 as stated: with a spectral radius below 1 the solver returns an H
\* whose residual is zero, and with a spectral radius of 1 or more it
\* returns no matrix.
C6_ConvergesIffStable ==
    Called("find_stationary_var") =>
        IF RLt(KronRadius(args.amat, args.bmat), Unit)
        THEN /\ result.val # NoMatrix
             /\ Residual(result.val, args.amat, args.bmat, args.cmat) = Zeros(Len(args.amat))
        ELSE result.val = NoMatrix

\* C8, amended: for a zero target (the target of a series of zeros) and
\* any A, B the derived C is the missing marker; the constraint score is
\* the spectral radius of kron(A, A) + kron(B, B), whatever the
\* innovations and C.
C8_ZeroTarget ==
    /\ (Called("find_cmat") /\ args.target = Zeros(Len(args.target)))
           => result.val = NoCmat
    /\ Called("constraint") => result.val = KronRadius(args.amat, args.bmat)

\* C has been derived from the zero target of a series of two stocks
C8_Witness ==
    /\ Called("find_cmat")
    /\ args.target = Zeros(2)
    /\ args.amat # Zeros(2)

\* C8 as stated: for a zero target the derived C is the zero matrix.
C8_ZeroTargetGivesZeroC ==
    (Called("find_cmat") /\ args.target = Zeros(Len(args.target)))
        => (result.val # NoCmat /\ CCt(result.val) = Zeros(Len(args.target)))

\* the determinant of a block of one or two stocks
RefDet(h) ==
    IF Len(h) = 1 THEN h[1][1]
    ELSE RSub(RMul(h[1][1], h[2][2]), RMul(h[1][2], h[2][1]))

\* the adjugate of a block of one or two stocks
RefAdj(h) ==
    IF Len(h) = 1 THEN <<<<Unit>>>>
    ELSE <<<<h[2][2], RNeg(h[1][2])>>, <<RNeg(h[2][1]), h[1][1]>>>>

\* u' H^{-1} u by Cramer's rule
RefQuad(h, u) ==
    RDiv(RSum(Tab(Len(u), LAMBDA i :
                  RSum(Tab(Len(u), LAMBDA j : RMul(RMul(u[i], RefAdj(h)[i][j]), u[j]))))),
         RefDet(h))

\* the product over t of |det H_t|, blocks of NaN left out
RECURSIVE RefLogArg(_)
RefLogArg(hv) ==
    IF hv = <<>> THEN Unit
    ELSE IF HasNaN(hv[1]) THEN RefLogArg(Tail(hv))
    ELSE RMul(RAbs(RefDet(hv[1])), RefLogArg(Tail(hv)))

\* the sum over t of u_t' H_t^{-1} u_t
RECURSIVE RefQuadSum(_, _)
RefQuadSum(hv, u) ==
    IF hv = <<>> THEN Zero
    ELSE RAdd(RefQuad(hv[1], u[1]), RefQuadSum(Tail(hv), Tail(u)))

\* the sequences of args.hvar and args.innov as tuples
ArgBlocks == Tab(Len(args.hvar), LAMBDA t : args.hvar[t])

ArgRows == Tab(Len(args.innov), LAMBDA t : args.innov[t])

\* block t is s2 times the identity
IsScaledEye(h, s2) == h = Scale(s2, Eye(Len(h)))

\* x to the power n
RECURSIVE RPow(_, _)
RPow(x, n) == IF n = 0 THEN Unit ELSE RMul(x, RPow(x, n - 1))

\* the closed form for H_t = s2_t I: log-argument the product of s2_t^N,
\* quadratic form the sum of u_ti^2 / s2_t
RECURSIVE ClosedLogArg(_)
ClosedLogArg(hv) ==
    IF hv = <<>> THEN Unit
    ELSE RMul(RPow(hv[1][1][1], Len(hv[1])), ClosedLogArg(Tail(hv)))

RECURSIVE ClosedQuad(_, _)
ClosedQuad(hv, u) ==
    IF hv = <<>> THEN Zero
    ELSE RAdd(RSum(Tab(Len(u[1]), LAMBDA i : RDiv(RMul(u[1][i], u[1][i]), hv[1][1][1]))),
              ClosedQuad(Tail(hv), Tail(u)))

\* C9, amended: when the evaluator returns, it returns the sum over t of
\* log|H_t| + u_t' H_t^{-1} u_t itself, not its negative: u_t is paired
\* with H_t, the logarithms are those of the magnitudes of the factors'
\* diagonal (their product per block is |det H_t|) with NaN entries left
\* out, and for H_t = s2_t I the value is the closed form.
C9_SumOfContributions ==
    (Called("likelihood") /\ result.val.tag = "value") =>
        /\ result.val.logarg = RefLogArg(ArgBlocks)
        /\ result.val.quad = RefQuadSum(ArgBlocks, ArgRows)
        /\ (\A t \in 1..Len(args.hvar) :
               IsScaledEye(args.hvar[t], Unit) \/ IsScaledEye(args.hvar[t], Num(2)))
              => /\ result.val.logarg = ClosedLogArg(ArgBlocks)
                 /\ result.val.quad = ClosedQuad(ArgBlocks, ArgRows)

\* the evaluator returned a value for two blocks of two stocks, one of
\* them not positive definite, and the quadratic forms do not cancel
C9_Witness ==
    /\ Called("likelihood")
    /\ result.val.tag = "value"
    /\ Len(args.hvar) = 2
    /\ args.hvar[1] = <<<<Zero, Unit>>, <<Unit, Zero>>>>
    /\ args.hvar[2] = Scale(Num(2), Eye(2))
    /\ result.val.quad = Unit

\* C9 as stated: the evaluator returns the negative of the sum, that is
\* -log(prod |det H_t|) - sum u_t' H_t^{-1} u_t.
C9_NegativeOfSum ==
    (Called("likelihood") /\ result.val.tag = "value") =>
        /\ result.val.logarg = RDiv(Unit, RefLogArg(ArgBlocks))
        /\ result.val.quad = RNeg(RefQuadSum(ArgBlocks, ArgRows))

\* minimize has returned: estimate is done, or it raised after an objective
\* call that did not raise (it got past bekk.py line 201)
OptimizerReturned ==
    \/ pc = "done"
    \/ (pc = "raised" /\ param_start # None /\ last.ret.tag # "raise")

\* C11 as stated: once the optimizer has returned, estimate completes and
\* the final parameters are the decode of the returned theta under the
\* restriction, target and stock count the objective decoded with.
C11_FinalDecodeAsObjective ==
    OptimizerReturned =>
        /\ pc = "done"
        /\ restriction = param_start
        /\ param_final = BEKKParams(opt_out.x, param_start, target, Len(innov[1]))

\* the sequence an evaluation of the objective at param stores
FilteredUnder(param, u) ==
    recursion(fresh_hvar(u, unconditional_var(param)), u,
              param.amat, param.bmat, param.cmat)

\* the error sequence of C12: u_t u_t' the outer product, U the unconditional
\* variance of param, H the filtered sequence
RefError(param, U, HV) ==
    Let3(LAMBDA u, H, uvar :
            [t \in 1..Len(u) |->
                IF t = 1 THEN MatSub(Outer(u[1]), uvar)
                ELSE MatSub(MatSub(MatSub(Outer(u[t]), uvar),
                                   Sandwich(param.amat, MatSub(Outer(u[t-1]), uvar))),
                            Sandwich(param.bmat, MatSub(H[t-1], uvar)))],
         U, HV, unconditional_var(param))

\* C12 as stated: estimate_error(param), for param with an unconditional
\* variance U, returns error_0 = u_0 u_0' - U and error_t = (u_t u_t' - U)
\* - A (u_{t-1} u_{t-1}' - U) A' - B (H_{t-1} - U) B' with the outer products
\* u_t u_t' and H the stored sequence, filtered under param, and the call
\* leaves the stored sequence and the innovations as they were.
C12_ErrorOfOuterProducts ==
    /\ [](Called("estimate_error") /\ ~Infeasible(args.param)
             /\ hvar = FilteredUnder(args.param, innov) =>
            result.val = ErrorValue(RefError(args.param, innov,
                                             FilteredUnder(args.param, innov))))
    /\ [][args.fn = "estimate_error" => hvar' = hvar /\ innov' = innov]_vars
====
